---------------------------- MODULE Spec2Model ----------------------------
(***************************************************************************)
(* Model of the two core algorithms of the BART ridership example:         *)
(*                                                                         *)
(*   - pipeline/geohash_population.py: GeohashEnumerator (breadth-first    *)
(*     walk over geohash cells restricted to an allow-list of prefixes)    *)
(*     and get_sum / read_box (windowed raster aggregation);               *)
(*   - pipeline/prep_dataset.py: GraphReader (automaton that turns an      *)
(*     origin/destination matrix into an undirected weighted graph) and    *)
(*     load_ridership_data (the loop that drives it).                      *)
(*                                                                         *)
(* Strings are sequences of one-character strings, so that slicing,        *)
(* sorting, joining and splitting are computed rather than assumed.        *)
(* A geohash is a sequence of characters of a scaled-down alphabet with    *)
(* one bit per character (the real alphabet has five): odd positions hold  *)
(* longitude bits, even positions latitude bits, as in a real geohash.     *)
(***************************************************************************)
EXTENDS Integers, Sequences, FiniteSets, TLC

VARIABLES
    \* GeohashEnumerator
    ALLOWED_THREE_LETTERS,   \* module constant of geohash_population.py
    start_geohash,           \* argument of GeohashEnumerator.__init__
    geohashes_seen,          \* self._geohashes_seen
    geohashes_waiting,       \* self._geohashes_waiting (FIFO queue)
    puts,                    \* the cells put on the queue so far, in order
    produced,                \* values returned by __next__, in order
    stops,                   \* number of StopIteration raised so far
    \* get_sum / read_box
    target,                  \* the raster opened (geotiff.GeoTiff)
    call,                    \* the last get_sum call and what it did
    sums,                    \* what the iterator of get_sums has yielded
    \* GraphReader
    reader,                  \* the GraphReader instance
    raised,                  \* exception of the last step() ("" if none)
    steps,                   \* number of step() calls made
    finished,                \* lists returned by finish(), in call order
    late,                    \* outcomes of the step() calls made after finish()
    \* load_ridership_data
    files,                   \* the rows of the file each load is given
    csv_reader,              \* per load: the rows of its file not yet read
    graph_reader,            \* per load: its GraphReader
    loaded                   \* per load: how far it is and what it returned

enumVars == <<ALLOWED_THREE_LETTERS, start_geohash, geohashes_seen,
              geohashes_waiting, puts, produced, stops>>
aggVars == <<target, call, sums>>
graphVars == <<reader, raised, steps, finished, late>>
loadVars == <<files, csv_reader, graph_reader, loaded>>
vars == <<enumVars, aggVars, graphVars, loadVars>>

None == "None"

\* The elements of a sequence (s is bound once, then indexed).
Range(s) == UNION {{v[i] : i \in DOMAIN v} : v \in {s}}

(***************************************************************************)
(* Geohash cells                                                           *)
(***************************************************************************)

\* Length of the geohashes walked (the seed's length; neighbours keep it).
SeedLen == 4

\* Length of the prefix the allow-list is keyed on: x[:3].
PrefixLen == 3

\* Largest number of pulls made after the enumerator is exhausted.
MaxStops == 2

GeohashChars == {0, 1}

Geohashes == [1..SeedLen -> GeohashChars]

Prefixes == [1..PrefixLen -> GeohashChars]

\* x[:3]
Prefix(x) == SubSeq(x, 1, IF Len(x) < PrefixLen THEN Len(x) ELSE PrefixLen)

\* "e" and "w" move along longitude (odd positions), "n" and "s" along
\* latitude (even positions); "e" and "n" increase the coordinate.
AxisOf(direction) == IF direction \in {"e", "w"} THEN 1 ELSE 0

Increases(direction) == direction \in {"e", "n"}

\* Geohashes of every length up to the walked one (the parents).
GeohashesUpTo == UNION {[1..n -> GeohashChars] : n \in 0..SeedLen}

Directions == {"n", "e", "s", "w"}

\* geolib.geohash.adjacent: change the last character, and move the parent
\* too when the last character lies on the border of the parent in that
\* direction; at the edge of the world (no parent) the cell wraps around.
adjacent[geohash \in GeohashesUpTo, direction \in Directions] ==
    IF Len(geohash) = 0 THEN geohash
    ELSE LET last_char == geohash[Len(geohash)]
             parent == SubSeq(geohash, 1, Len(geohash) - 1)
             t == Len(geohash) % 2
         IN  IF t # AxisOf(direction)
             THEN adjacent[parent, direction] \o <<last_char>>
             ELSE IF Increases(direction)
                  THEN IF last_char = 1
                       THEN adjacent[parent, direction] \o <<0>>
                       ELSE parent \o <<1>>
                  ELSE IF last_char = 0
                       THEN adjacent[parent, direction] \o <<1>>
                       ELSE parent \o <<0>>

\* geolib.geohash.neighbours: n, ne, e, se, s, sw, w, nw.
neighbours(geohash) ==
    LET n == adjacent[geohash, "n"]
        e == adjacent[geohash, "e"]
        s == adjacent[geohash, "s"]
        w == adjacent[geohash, "w"]
    IN  <<n, adjacent[n, "e"], e, adjacent[s, "e"],
          s, adjacent[s, "w"], w, adjacent[n, "w"]>>

(***************************************************************************)
(* GeohashEnumerator                                                       *)
(***************************************************************************)

\* Mutant of is_allowed: the test is negated.
is_allowed_negated(x, allowed) == Prefix(x) \notin allowed

\* Mutant of is_allowed: the prefix filter is left out.
is_allowed_unfiltered(x, allowed) == TRUE

\* lambda x: x[:3] in ALLOWED_THREE_LETTERS
is_allowed(x, allowed) == Prefix(x) \in allowed

\* Mutant of is_new: the seen-set is not consulted.
is_new_unchecked(x, seen) == TRUE

\* lambda x: x not in self._geohashes_seen
is_new(x, seen) == x \notin seen

\* The values a queue, an allow-list and a seen-set may take.
Queues == Seq(Geohashes)

Allowed == SUBSET Prefixes

Seen == SUBSET Geohashes

\* The for loop of __next__ over the two lazy filters: each neighbour is
\* tested against the seen-set as it stands when the loop reaches it, then
\* added to the seen-set and put on the queue.
for_neighbor[candidates \in Queues, allowed \in Allowed, seen \in Seen, waiting \in Queues] ==
    IF candidates = <<>> THEN [seen |-> seen, waiting |-> waiting]
    ELSE IF /\ is_allowed(Head(candidates), allowed)
            /\ is_new(Head(candidates), seen)
         THEN for_neighbor[Tail(candidates), allowed,
                           seen \cup {Head(candidates)},
                           Append(waiting, Head(candidates))]
         ELSE for_neighbor[Tail(candidates), allowed, seen, waiting]

\* Mutant of visit_neighbors: each neighbour is put at the front of the
\* queue, which is then a stack.
visit_neighbors_stacked(candidates, allowed, seen, waiting) ==
    LET fifo == for_neighbor[candidates, allowed, seen, <<>>]
    IN  [seen |-> fifo.seen,
         waiting |-> [i \in 1..Len(fifo.waiting) |->
                         fifo.waiting[Len(fifo.waiting) + 1 - i]] \o waiting]

\* Mutant of visit_neighbors: the loop is left after the first neighbour
\* it enqueues (a return indented into the loop body).
visit_neighbors_first(candidates, allowed, seen, waiting) ==
    LET fresh == SelectSeq(candidates,
                     LAMBDA x : is_allowed(x, allowed) /\ is_new(x, seen))
    IN  IF fresh = <<>> THEN [seen |-> seen, waiting |-> waiting]
        ELSE [seen |-> seen \cup {Head(fresh)},
              waiting |-> Append(waiting, Head(fresh))]

\* Lines 60-72 of __next__: the seen-set and the queue after the loop.
visit_neighbors(candidates, allowed, seen, waiting) ==
    for_neighbor[candidates, allowed, seen, waiting]

\* Mutant of queue_get: the head is read but not removed.
queue_peek(waiting) == waiting

\* self._geohashes_waiting.get(): the queue without its head.
queue_get(waiting) == Tail(waiting)

\* Mutant of enumerator_init: the seed is queued but not marked as seen.
enumerator_init_unseen(seed) == [seen |-> {}, waiting |-> <<seed>>]

\* GeohashEnumerator.__init__: the seen-set and the queue hold the seed.
enumerator_init(seed) == [seen |-> {seed}, waiting |-> <<seed>>]

EnumeratorInit ==
    /\ ALLOWED_THREE_LETTERS \in SUBSET Prefixes
    /\ start_geohash \in Geohashes
    /\ geohashes_seen = enumerator_init(start_geohash).seen
    /\ geohashes_waiting = enumerator_init(start_geohash).waiting
    /\ puts = <<start_geohash>>
    /\ produced = <<>>
    /\ stops = 0

\* Mutant of stop_iteration: the walk is set up again from the seed.
stop_iteration_rewound(seed, seen, waiting) == enumerator_init(seed)

\* `raise StopIteration()` on an empty queue: the seen-set and the queue
\* are left as they are.
stop_iteration(seed, seen, waiting) == [seen |-> seen, waiting |-> waiting]

\* The cells a pull has put on the queue, in the order of the put() calls:
\* the candidates that entered the seen-set, each where it comes first.
puts_of(candidates, before, after) ==
    LET first == {i \in 1..Len(candidates) :
                     /\ candidates[i] \in after \ before
                     /\ \A j \in 1..(i - 1) : candidates[j] # candidates[i]}
        nth(m) == CHOOSE i \in first : Cardinality({j \in first : j < i}) = m - 1
    IN  [m \in 1..Cardinality(first) |-> candidates[nth(m)]]

\* Most pulls that return a cell the model follows: one more than there
\* are cells, which no run of the enumerator reaches.
PullCap == Cardinality(Geohashes) + 1

\* GeohashEnumerator.__next__
GeohashEnumerator_next ==
    /\ IF geohashes_waiting = <<>>
       THEN /\ stops < MaxStops
            /\ stops' = stops + 1
            /\ LET after == stop_iteration(start_geohash, geohashes_seen,
                                           geohashes_waiting)
               IN  /\ geohashes_seen' = after.seen
                   /\ geohashes_waiting' = after.waiting
            /\ UNCHANGED <<puts, produced>>
       ELSE /\ Len(produced) < PullCap
            /\ \E next_geohash \in {Head(geohashes_waiting)} :
               \E candidates \in {neighbours(next_geohash)} :
               \E after \in {visit_neighbors(candidates,
                                              ALLOWED_THREE_LETTERS,
                                              geohashes_seen,
                                              queue_get(geohashes_waiting))} :
               \E put \in {puts_of(candidates, geohashes_seen, after.seen)} :
                   /\ geohashes_seen' = after.seen
                   /\ geohashes_waiting' = after.waiting
                   /\ puts' = puts \o put
                   /\ produced' = Append(produced, next_geohash)
            /\ UNCHANGED stops
    /\ UNCHANGED <<ALLOWED_THREE_LETTERS, start_geohash>>
    /\ UNCHANGED <<aggVars, graphVars, loadVars>>

(***************************************************************************)
(* Properties of GeohashEnumerator                                         *)
(***************************************************************************)

\* The set of the (up to eight) neighbours of a cell.
NeighbourSet(x) == Range(neighbours(x))

\* The cells reachable from the seed by neighbour steps onto cells with an
\* allow-listed prefix: `frontier` holds the cells found last, `found` all
\* the cells found so far.
RECURSIVE ReachableFrom(_, _, _)
ReachableFrom(frontier, found, allowed) ==
    LET next == {n \in UNION {NeighbourSet(c) : c \in frontier} :
                     Prefix(n) \in allowed /\ n \notin found}
    IN  IF next = {} THEN found
        ELSE ReachableFrom(next, found \cup next, allowed)

Reachable == ReachableFrom({start_geohash}, {start_geohash},
                           ALLOWED_THREE_LETTERS)

\* C1: no cell identifier is returned by __next__ more than once, the seed
\* included.
C1_NoIdentifierTwice ==
    \A i, j \in 1..Len(produced) : produced[i] = produced[j] => i = j

\* C1 witness: several cells were returned, the seed first, and the last
\* one has a cell returned earlier (already seen) among its neighbours.
C1_Witness ==
    /\ Len(produced) >= 4
    /\ produced[1] = start_geohash
    /\ \E i \in 1..(Len(produced) - 1) :
          produced[i] \in NeighbourSet(produced[Len(produced)])

\* C2: once the enumerator is exhausted, the set of returned identifiers
\* is exactly the set of cells reachable from the seed by neighbour steps
\* onto allow-listed cells.
C2_ExactlyReachable ==
    geohashes_waiting = <<>> => Range(produced) = Reachable

\* C2 witness: an exhausted walk that returned more than the seed and left
\* some cell out.
C2_Witness ==
    /\ geohashes_waiting = <<>>
    /\ stops > 0
    /\ Len(produced) > 4
    /\ Range(produced) # Geohashes

\* C3: repeated pulls eventually find the queue empty and raise
\* StopIteration.
C3_EventuallyExhausted ==
    <>(start_geohash # <<>> /\ geohashes_waiting = <<>> /\ stops > 0)

\* C3 witness: StopIteration was raised after a walk over several cells.
C3_Witness == stops > 0 /\ Len(produced) > 4

\* C12: once a pull has raised StopIteration, every later pull raises it
\* too: it returns no identifier and leaves the queue and the seen-set as
\* they were.
C12_ExhaustionIsFinal ==
    [][stops > 0 =>
          /\ stops' = stops + 1
          /\ produced' = produced
          /\ geohashes_waiting' = geohashes_waiting
          /\ geohashes_seen' = geohashes_seen]_vars

\* C12 witness: after a walk over several cells, a second pull on the
\* exhausted enumerator has raised StopIteration.
C12_Witness == stops >= 2 /\ Len(produced) > 4

\* C18: when the seed has no allow-listed prefix, no pull raises
\* StopIteration before the seed is returned, the seed is the first cell
\* returned and is returned once, and when it is returned its neighbours
\* with an allow-listed prefix, and no others, are put on the queue.
C18_UnlistedSeedProduced ==
    Prefix(start_geohash) \notin ALLOWED_THREE_LETTERS =>
        /\ stops > 0 => produced # <<>>
        /\ produced # <<>> =>
              /\ produced[1] = start_geohash
              /\ \A i \in 2..Len(produced) : produced[i] # start_geohash
              /\ {n \in NeighbourSet(start_geohash) :
                     Prefix(n) \in ALLOWED_THREE_LETTERS} \subseteq geohashes_seen
        /\ Len(produced) = 1 =>
              Range(geohashes_waiting) =
                  {n \in NeighbourSet(start_geohash) :
                      Prefix(n) \in ALLOWED_THREE_LETTERS}

\* C18 witness: a walk from a seed without an allow-listed prefix returned
\* the seed and then allow-listed cells, neighbours of the seed among
\* them, up to exhaustion.
C18_Witness ==
    /\ Prefix(start_geohash) \notin ALLOWED_THREE_LETTERS
    /\ stops > 0
    /\ Len(produced) > 3
    /\ produced[2] \in NeighbourSet(start_geohash)

\* C19: the cells are returned in the order they were put on the queue:
\* the i-th cell returned is the i-th cell put, the seed being the first,
\* and the cells put and not yet returned wait in that order.
C19_FifoOrder ==
    /\ Len(produced) <= Len(puts)
    /\ \A i \in 1..Len(produced) : produced[i] = puts[i]
    /\ geohashes_waiting = SubSeq(puts, Len(produced) + 1, Len(puts))
    /\ puts # <<>> => puts[1] = start_geohash

\* C19 witness: one pull put several cells on the queue, a later pull put
\* more behind them, and cells of both pulls were returned.
C19_Witness ==
    /\ Len(produced) >= 5
    /\ Len(puts) > Len(produced)
    /\ \E i \in 2..4 : produced[i] \in NeighbourSet(start_geohash)
    /\ produced[5] \notin NeighbourSet(start_geohash)

\* C21: every cell on the queue is in the seen-set, the queue holds no
\* cell twice, no cell returned is on the queue, and the seen-set is the
\* union of the cells returned and the cells on the queue.
C21_SeenIsProducedPlusWaiting ==
    /\ Range(geohashes_waiting) \subseteq geohashes_seen
    /\ \A i, j \in 1..Len(geohashes_waiting) :
          geohashes_waiting[i] = geohashes_waiting[j] => i = j
    /\ Range(produced) \cap Range(geohashes_waiting) = {}
    /\ geohashes_seen = Range(produced) \cup Range(geohashes_waiting)

\* C21 witness: in the middle of a walk, with cells returned and cells
\* waiting, the head of the queue has a neighbour that was returned and
\* one that is waiting.
C21_Witness ==
    /\ Len(produced) >= 2
    /\ Len(geohashes_waiting) >= 2
    /\ NeighbourSet(Head(geohashes_waiting)) \cap Range(produced) # {}
    /\ NeighbourSet(Head(geohashes_waiting)) \cap Range(geohashes_waiting) # {}

\* C4: a neighbour, without an allow-listed prefix, of a returned cell is
\* not returned by any later pull and is not waiting to be expanded; that
\* is, a cell without an allow-listed prefix that is returned or waiting
\* is no neighbour of a cell returned before it.
C4_PrunedNeverVisited ==
    /\ \A j \in 1..Len(produced) :
          Prefix(produced[j]) \notin ALLOWED_THREE_LETTERS =>
              \A i \in 1..(j - 1) : produced[j] \notin NeighbourSet(produced[i])
    /\ \A k \in 1..Len(geohashes_waiting) :
          Prefix(geohashes_waiting[k]) \notin ALLOWED_THREE_LETTERS =>
              \A i \in 1..Len(produced) :
                  geohashes_waiting[k] \notin NeighbourSet(produced[i])

\* C4 witness: a cell returned before the last had a neighbour without an
\* allow-listed prefix, and the walk went on to its end.
C4_Witness ==
    /\ stops > 0
    /\ Len(produced) > 2
    /\ \E n \in NeighbourSet(produced[2]) :
          Prefix(n) \notin ALLOWED_THREE_LETTERS

(***************************************************************************)
(* read_box and get_sum                                                    *)
(***************************************************************************)

\* Most pixels in a window read from the raster.
MaxPixels == 2

\* Raw pixel values: the raster's "no data" mark, nobody, somebody.
PixelValues == {-9999, 0, 3}

\* The number a sequence of bits writes, most significant bit first.
RECURSIVE bits_value(_)
bits_value(bits) ==
    IF bits = <<>> THEN 0
    ELSE 2 * bits_value(SubSeq(bits, 1, Len(bits) - 1)) + bits[Len(bits)]

\* geolib.geohash.bounds: ((south, west), (north, east)), latitude first,
\* in units of one cell; longitude is written by the odd positions of the
\* geohash and latitude by the even ones.
geohash_bounds(geohash) ==
    LET lon == bits_value([i \in 1..((Len(geohash) + 1) \div 2) |->
                              geohash[2 * i - 1]])
        lat == bits_value([i \in 1..(Len(geohash) \div 2) |-> geohash[2 * i]])
    IN  <<<<lat, lon>>, <<lat + 1, lon + 1>>>>

\* Cells along each axis of the world.
LonCells == 2 ^ ((SeedLen + 1) \div 2)
LatCells == 2 ^ (SeedLen \div 2)

\* The rasters: the rectangle each covers, which reaches or falls one cell
\* short of each edge of the world, and the pixels a window of it holds.
Rasters ==
    [west : {0, 1}, east : {LonCells - 1, LonCells},
     south : {0, 1}, north : {LatCells - 1, LatCells},
     pixels : UNION {[1..n -> PixelValues] : n \in 1..MaxPixels}]

\* GeoTiff.read_box(bounds), bounds being [[x1, y1], [x2, y2]]: the pixels
\* of the window, or BoundaryNotInTifError when the box is not inside the
\* raster.
GeoTiff_read_box(tif, bounds) ==
    IF /\ tif.west <= bounds[1][1] /\ bounds[2][1] <= tif.east
       /\ tif.south <= bounds[1][2] /\ bounds[2][2] <= tif.north
    THEN [raised |-> "", pixels |-> tif.pixels]
    ELSE [raised |-> "BoundaryNotInTifError", pixels |-> <<>>]

\* Mutant of numpy_clip: the values are passed on as read.
numpy_clip_skipped(a) == a

\* numpy.clip(a, 0, None)
numpy_clip(a) == [i \in 1..Len(a) |-> IF a[i] < 0 THEN 0 ELSE a[i]]

\* numpy.sum(a)
RECURSIVE numpy_sum(_)
numpy_sum(a) == IF a = <<>> THEN 0 ELSE a[1] + numpy_sum(Tail(a))

\* PopulationGrid(geohash, population)
PopulationGrid(geohash, population) ==
    [geohash |-> geohash, population |-> population]

\* The None an Optional result may be.
Absent == [none |-> TRUE]

\* Mutant of read_box: a window off the raster is read as an empty one.
read_box_empty(tif, bounds) ==
    LET got == GeoTiff_read_box(tif, bounds)
    IN  [array |-> IF got.raised = "" THEN numpy_clip(got.pixels) ELSE <<>>,
         none |-> FALSE,
         reads |-> <<got.raised>>]

\* read_box: the clipped pixels, or None when the raster raises
\* BoundaryNotInTifError; `reads` lists what each read of the raster raised.
read_box(tif, bounds) ==
    LET got == GeoTiff_read_box(tif, bounds)
    IN  IF got.raised = "BoundaryNotInTifError"
        THEN [array |-> <<>>, none |-> TRUE, reads |-> <<got.raised>>]
        ELSE [array |-> numpy_clip(got.pixels), none |-> FALSE,
              reads |-> <<got.raised>>]

\* get_sum: what it passed to the raster, what the raster raised at each
\* read, the exception that left get_sum ("" if none) and what it returned.
get_sum(tif, geohash) ==
    LET bounds_nest == geohash_bounds(geohash)
        bounds == <<<<bounds_nest[1][2], bounds_nest[1][1]>>,
                    <<bounds_nest[2][2], bounds_nest[2][1]>>>>
        result == read_box(tif, bounds)
    IN  [pc |-> "returned", geohash |-> geohash, bounds |-> bounds,
         reads |-> result.reads, raised |-> "",
         returned |-> IF result.none THEN Absent
                      ELSE PopulationGrid(geohash, numpy_sum(result.array))]

NoTarget == [west |-> 0, east |-> 0, south |-> 0, north |-> 0, pixels |-> <<>>]

NoCall == [pc |-> "idle", geohash |-> <<>>, bounds |-> <<>>, reads |-> <<>>,
           raised |-> "", returned |-> Absent]

\* target = geotiff.GeoTiff(tiff_loc)
AggInit == target \in Rasters /\ call = NoCall /\ sums = <<>>

\* A call of get_sum(target, geohash).
GeohashPopulation_get_sum ==
    /\ \E geohash \in Geohashes : call' = get_sum(target, geohash)
    /\ UNCHANGED <<target, sums>>
    /\ UNCHANGED <<enumVars, graphVars, loadVars>>

\* C10: when the read of the raster for the cell's box fails with
\* BoundaryNotInTifError, get_sum raises nothing, reads the raster once
\* only, and returns None, not a PopulationGrid of population 0.
C10_OutOfBoundsIsAbsent ==
    (call.pc = "returned" /\ call.reads # <<>>
        /\ call.reads[1] = "BoundaryNotInTifError") =>
            /\ call.raised = ""
            /\ Len(call.reads) = 1
            /\ call.returned = Absent
            /\ call.returned # PopulationGrid(call.geohash, 0)

\* C10 witness: get_sum was called for a cell on the edge of the world
\* that the raster, which covers other cells, does not reach.
C10_Witness ==
    /\ call.pc = "returned"
    /\ call.reads = <<"BoundaryNotInTifError">>
    /\ call.bounds[1][1] = 0
    /\ target.west = 1 /\ target.east > target.west

\* The sum of max(v, 0) over the pixels of a window, counted value by
\* value: each positive value times the number of pixels that hold it.
RECURSIVE ClippedTotal(_, _)
ClippedTotal(pixels, values) ==
    IF values = {} THEN 0
    ELSE LET v == CHOOSE w \in values : TRUE
             held == Cardinality({i \in 1..Len(pixels) : pixels[i] = v})
         IN  (IF v > 0 THEN v * held ELSE 0) + ClippedTotal(pixels, values \ {v})

\* C11: for a cell the raster covers, get_sum returns the PopulationGrid of
\* the cell whose population is the sum of max(v, 0) over the pixels of
\* the window; it is not negative, and it is 0 when every pixel is.
C11_SumOfClippedPixels ==
    (call.pc = "returned" /\ call.reads # <<>> /\ call.reads[1] = "") =>
        /\ call.raised = ""
        /\ call.returned =
              PopulationGrid(call.geohash,
                             ClippedTotal(target.pixels, PixelValues))
        /\ call.returned.population >= 0
        /\ (\A i \in 1..Len(target.pixels) : target.pixels[i] < 0) =>
              call.returned.population = 0

\* C11 witness: a covered cell whose window holds a "no data" pixel and a
\* positive one, and the population returned is the positive one.
C11_Witness ==
    /\ call.pc = "returned"
    /\ call.reads = <<"">>
    /\ target.pixels = <<-9999, 3>>
    /\ call.returned.population = 3

(***************************************************************************)
(* get_sums: get_sum mapped over a GeohashEnumerator, None filtered out    *)
(***************************************************************************)

\* ALLOWED_THREE_LETTERS as the module sets it: four prefixes that share
\* their beginning ('9qb', '9qc', '9q8', '9q9').
ALLOWED_DEFAULT == {x \in Prefixes : x[1] = 0}

\* START_GEOHASH: a cell of the allow-listed region.
START_GEOHASH == [i \in 1..SeedLen |-> 0]

\* One __next__ of an enumerator held as a record, for a non-empty queue:
\* the record after it; the cell returned is the last of `produced`.
enumerator_next(allowed, self) ==
    LET next_geohash == Head(self.waiting)
        candidates == neighbours(next_geohash)
        after == visit_neighbors(candidates, allowed, self.seen,
                                 queue_get(self.waiting))
    IN  [seen |-> after.seen, waiting |-> after.waiting,
         puts |-> self.puts \o puts_of(candidates, self.seen, after.seen),
         produced |-> Append(self.produced, next_geohash)]

\* Mutant of filter_next: the iterator ends at the first cell for which
\* get_sum returns None.
RECURSIVE filter_next_until_none(_, _, _)
filter_next_until_none(tif, allowed, self) ==
    IF self.waiting = <<>>
    THEN [self |-> self, yielded |-> <<>>, raised |-> "StopIteration"]
    ELSE LET after == enumerator_next(allowed, self)
             item == get_sum(tif, Head(self.waiting)).returned
         IN  IF item = Absent
             THEN [self |-> [after EXCEPT !.waiting = <<>>], yielded |-> <<>>,
                   raised |-> "StopIteration"]
             ELSE [self |-> after, yielded |-> <<item>>, raised |-> ""]

\* One __next__ of filter(lambda x: x is not None, map(get_sum, enumerator)):
\* cells are pulled from the enumerator, and get_sum applied to each, until
\* one gives a PopulationGrid, which is yielded, or the enumerator raises
\* StopIteration, which propagates.
RECURSIVE filter_next(_, _, _)
filter_next(tif, allowed, self) ==
    IF self.waiting = <<>>
    THEN [self |-> self, yielded |-> <<>>, raised |-> "StopIteration"]
    ELSE LET after == enumerator_next(allowed, self)
             item == get_sum(tif, Head(self.waiting)).returned
         IN  IF item = Absent THEN filter_next(tif, allowed, after)
             ELSE [self |-> after, yielded |-> <<item>>, raised |-> ""]

\* get_sums(target): the raster is any of the rasters, the enumerator is
\* built with the default seed.
SumsInit ==
    /\ target \in Rasters
    /\ call = NoCall
    /\ sums = <<>>
    /\ ALLOWED_THREE_LETTERS = ALLOWED_DEFAULT
    /\ start_geohash = START_GEOHASH
    /\ geohashes_seen = enumerator_init(START_GEOHASH).seen
    /\ geohashes_waiting = enumerator_init(START_GEOHASH).waiting
    /\ puts = <<START_GEOHASH>>
    /\ produced = <<>>
    /\ stops = 0

\* A pull on the iterator get_sums returned.
get_sums_next ==
    /\ stops < MaxStops
    /\ \E after \in {filter_next(target, ALLOWED_THREE_LETTERS,
                                 [seen |-> geohashes_seen,
                                  waiting |-> geohashes_waiting,
                                  puts |-> puts, produced |-> produced])} :
          /\ geohashes_seen' = after.self.seen
          /\ geohashes_waiting' = after.self.waiting
          /\ puts' = after.self.puts
          /\ produced' = after.self.produced
          /\ sums' = sums \o after.yielded
          /\ stops' = IF after.raised = "StopIteration" THEN stops + 1 ELSE stops
    /\ UNCHANGED <<ALLOWED_THREE_LETTERS, start_geohash, target, call>>
    /\ UNCHANGED <<graphVars, loadVars>>

\* Whether the raster covers the box of a cell.
Covered(tif, geohash) ==
    LET box == geohash_bounds(geohash)
    IN  /\ tif.west <= box[1][2] /\ box[2][2] <= tif.east
        /\ tif.south <= box[1][1] /\ box[2][1] <= tif.north

\* C20: the PopulationGrids yielded are those of the cells the enumerator
\* has returned that the raster covers, one each, in the order the cells
\* were returned; and once the iterator is exhausted, the allow-listed
\* neighbours of every cell returned, covered or not, were returned too.
C20_DropAndContinue ==
    /\ [i \in 1..Len(sums) |-> sums[i].geohash] =
          SelectSeq(produced, LAMBDA x : Covered(target, x))
    /\ \A i \in 1..Len(sums) :
          sums[i] = PopulationGrid(sums[i].geohash,
                                   ClippedTotal(target.pixels, PixelValues))
    /\ stops > 0 =>
          \A i \in 1..Len(produced) :
              \A n \in NeighbourSet(produced[i]) :
                  Prefix(n) \in ALLOWED_THREE_LETTERS => n \in Range(produced)

\* C20 witness: the iterator is exhausted; a cell the raster does not
\* cover was returned by the enumerator before cells it covers, and
\* those were yielded.
C20_Witness ==
    /\ stops > 0
    /\ sums # <<>>
    /\ Len(sums) < Len(produced)
    /\ ~Covered(target, produced[1])
    /\ \E n \in NeighbourSet(produced[1]) :
          \E i \in 1..Len(sums) : sums[i].geohash = n

(***************************************************************************)
(* Strings (sequences of characters) as Python handles them                *)
(***************************************************************************)

\* The characters of the model, in increasing code point order.
Characters ==
    <<"\t", " ", ",", "-", "0", "1", "2", "3", "4", "5", "6", "7", "8", "9",
      "A", "B", "C", "T", "e", "i", "t", "x">>

\* Position of a character in code point order.
Ord(c) == CHOOSE k \in 1..Len(Characters) : Characters[k] = c

Digits == {"0", "1", "2", "3", "4", "5", "6", "7", "8", "9"}

\* int("7") for one digit.
DigitValue(c) == Ord(c) - Ord("0")

Whitespace == {" ", "\t"}

\* a < b on Python strings: lexicographic by code point, a proper prefix
\* being smaller.
str_less(a, b) ==
    \E k \in 1..Len(b) :
        /\ k <= Len(a) + 1
        /\ \A i \in 1..(k - 1) : a[i] = b[i]
        /\ k = Len(a) + 1 \/ Ord(a[k]) < Ord(b[k])

\* Mutant of sorted_pair: the two codes are kept in the order given.
sorted_pair_unsorted(first, second) == <<first, second>>

\* sorted([first, second]): a stable sort of two strings.
sorted_pair(first, second) ==
    IF str_less(second, first) THEN <<second, first>> ELSE <<first, second>>

\* '\t'.join(keys) for two keys.
join_tab(keys) == keys[1] \o <<"\t">> \o keys[2]

\* key.split('\t'): the pieces between the tabs, in order.
split_tab(key) ==
    LET tabs == {i \in 1..Len(key) : key[i] = "\t"}
        before(n) == IF n > Cardinality(tabs) THEN Len(key) + 1
                     ELSE CHOOSE i \in tabs :
                              Cardinality({j \in tabs : j < i}) = n - 1
        after(n) == IF n = 1 THEN 0 ELSE before(n - 1)
    IN  [n \in 1..(Cardinality(tabs) + 1) |->
            SubSeq(key, after(n) + 1, before(n) - 1)]

\* s.strip(): s without its leading and trailing whitespace.
strip(s) ==
    LET inked == {i \in 1..Len(s) : s[i] \notin Whitespace}
    IN  IF inked = {} THEN <<>>
        ELSE SubSeq(s, CHOOSE i \in inked : \A j \in inked : i <= j,
                       CHOOSE i \in inked : \A j \in inked : j <= i)

\* s.replace(',', '')
remove_commas(s) == SelectSeq(s, LAMBDA c : c # ",")

\* The value of a string of digits.
RECURSIVE digits_value(_)
digits_value(s) ==
    IF s = <<>> THEN 0
    ELSE 10 * digits_value(SubSeq(s, 1, Len(s) - 1)) + DigitValue(s[Len(s)])

\* int(s): surrounding whitespace and one leading minus sign are accepted;
\* anything but digits after that is a ValueError.
py_int(s) ==
    LET t == strip(s)
        negative == t # <<>> /\ t[1] = "-"
        body == IF negative THEN Tail(t) ELSE t
    IN  IF body # <<>> /\ \A i \in 1..Len(body) : body[i] \in Digits
        THEN [ok |-> TRUE,
              value |-> IF negative THEN 0 - digits_value(body)
                        ELSE digits_value(body)]
        ELSE [ok |-> FALSE, value |-> 0]

\* Mutant of parse_count: a cell that is no number counts as 0.
parse_count_lenient(cell) ==
    LET parsed == py_int(remove_commas(strip(cell)))
    IN  IF parsed.ok THEN parsed ELSE [ok |-> TRUE, value |-> 0]

\* int(row[source].strip().replace(',', ''))
parse_count(cell) == py_int(remove_commas(strip(cell)))

(***************************************************************************)
(* GraphReader                                                             *)
(***************************************************************************)

STATE_WAITING == 0
STATE_READ_ORIGIN == 1
STATE_READ_ROW == 2
STATE_END == 3

\* 'exit'
EXIT == <<"e", "x", "i", "t">>

\* GraphWeight(source, destination, count)
GraphWeight(source, destination, count) ==
    [source |-> source, destination |-> destination, count |-> count]

\* GraphReader.__init__; a dictionary is the sequence of its (key, value)
\* pairs in insertion order.
GraphReader_init ==
    [state |-> STATE_WAITING, origin_header |-> None, weights |-> <<>>]

\* What a call leaves: the reader and the exception raised ("" if none).
Returned(self) == [self |-> self, raised |-> ""]
Raised(self, exception) == [self |-> self, raised |-> exception]

\* d.get(key, default)
dict_get(d, key, default) ==
    IF \E i \in 1..Len(d) : d[i][1] = key
    THEN d[CHOOSE i \in 1..Len(d) : d[i][1] = key][2]
    ELSE default

\* d[key] = value: an existing key keeps its place, a new one goes last.
dict_set(d, key, value) ==
    IF \E i \in 1..Len(d) : d[i][1] = key
    THEN [i \in 1..Len(d) |-> IF d[i][1] = key THEN <<key, value>> ELSE d[i]]
    ELSE Append(d, <<key, value>>)

\* dict(zip(keys, values)): pairs up to the shorter length; a repeated key
\* keeps its first place and takes its last value.
dict_zip(keys, values) ==
    LET n == IF Len(keys) < Len(values) THEN Len(keys) ELSE Len(values)
        firsts == {i \in 1..n : \A j \in 1..(i - 1) : keys[j] # keys[i]}
        last(k) == CHOOSE i \in 1..n :
                       keys[i] = k /\ \A j \in (i + 1)..n : keys[j] # k
        nth(m) == CHOOSE i \in firsts :
                      Cardinality({j \in firsts : j < i}) = m - 1
    IN  [m \in 1..Cardinality(firsts) |->
            <<keys[nth(m)], values[last(keys[nth(m)])]>>]

\* Mutant of add_count: the count is stored for a new edge only.
add_count_setdefault(weights, source, destination, count) ==
    LET key == join_tab(sorted_pair(source, destination))
    IN  IF \E i \in 1..Len(weights) : weights[i][1] = key THEN weights
        ELSE dict_set(weights, key, count)

\* Mutant of add_count: the count replaces the one accumulated so far.
add_count_overwrite(weights, source, destination, count) ==
    dict_set(weights, join_tab(sorted_pair(source, destination)), count)

\* GraphReader._add_count
add_count(weights, source, destination, count) ==
    LET keys == sorted_pair(source, destination)
        key == join_tab(keys)
        new_count == dict_get(weights, key, 0) + count
    IN  dict_set(weights, key, new_count)

\* GraphReader._make_output
make_output(key, count) ==
    LET key_pieces == split_tab(key)
    IN  GraphWeight(key_pieces[1], key_pieces[2], count)

\* GraphReader._on_wait
on_wait(self, line) == Returned([self EXCEPT !.state = STATE_READ_ORIGIN])

\* Mutant of on_read_origin: the header is kept but the state is not
\* moved on.
on_read_origin_stays(self, line) ==
    IF line = <<>>
    THEN Raised([self EXCEPT !.origin_header = line], "IndexError")
    ELSE Returned([self EXCEPT !.origin_header = [line EXCEPT ![1] = EXIT]])

\* GraphReader._on_read_origin: an empty line has no first cell to rename,
\* and the IndexError leaves the header set and the state as it was.
on_read_origin(self, line) ==
    IF line = <<>>
    THEN Raised([self EXCEPT !.origin_header = line], "IndexError")
    ELSE Returned([self EXCEPT !.origin_header = [line EXCEPT ![1] = EXIT],
                               !.state = STATE_READ_ROW])

\* Mutant of sources_allowed: the row's own column is not left out.
sources_allowed_all(row, destination) ==
    SelectSeq([m \in 1..Len(row) |-> row[m][1]], LAMBDA x : x # EXIT)

\* The two filters of _on_read_row over row.keys().
sources_allowed(row, destination) ==
    SelectSeq([m \in 1..Len(row) |-> row[m][1]],
              LAMBDA x : x # EXIT /\ x # destination)

\* The for loop of _on_read_row from the i-th source on: a cell that is
\* no number ends it with a ValueError, the counts added before it kept.
RECURSIVE for_source(_, _, _, _, _)
for_source(i, sources, row, destination, weights) ==
    IF i > Len(sources) THEN [weights |-> weights, raised |-> ""]
    ELSE LET count == parse_count(dict_get(row, sources[i], <<>>))
         IN  IF ~count.ok THEN [weights |-> weights, raised |-> "ValueError"]
             ELSE for_source(i + 1, sources, row, destination,
                             add_count(weights, sources[i], destination,
                                       count.value))

\* Mutant of on_read_row: a row that fails leaves the accumulator as it
\* was before the row.
on_read_row_rolled_back(self, line) ==
    LET row == dict_zip(self.origin_header, line)
    IN  IF ~\E m \in 1..Len(row) : row[m][1] = EXIT
        THEN Raised(self, "KeyError")
        ELSE LET destination == dict_get(row, EXIT, <<>>)
                 sources == sources_allowed(row, destination)
                 done == for_source(1, sources, row, destination,
                                    self.weights)
             IN  IF done.raised = "" THEN Returned([self EXCEPT
                                                      !.weights = done.weights])
                 ELSE Raised(self, done.raised)

\* GraphReader._on_read_row
on_read_row(self, line) ==
    LET row == dict_zip(self.origin_header, line)
    IN  IF ~\E m \in 1..Len(row) : row[m][1] = EXIT
        THEN Raised(self, "KeyError")
        ELSE LET destination == dict_get(row, EXIT, <<>>)
                 sources == sources_allowed(row, destination)
                 done == for_source(1, sources, row, destination,
                                    self.weights)
             IN  Raised([self EXCEPT !.weights = done.weights], done.raised)

\* Mutant of on_end: the call returns without raising.
on_end_silent(self, line) == Returned(self)

\* GraphReader._on_end
on_end(self, line) == Raised(self, "RuntimeError")

\* GraphReader.step: self._strategies[self._state](line)
step(self, line) ==
    CASE self.state = STATE_WAITING -> on_wait(self, line)
      [] self.state = STATE_READ_ORIGIN -> on_read_origin(self, line)
      [] self.state = STATE_READ_ROW -> on_read_row(self, line)
      [] self.state = STATE_END -> on_end(self, line)

\* Mutant of finish: the accumulator is emptied once the list is made.
finish_discarding(self) ==
    [self |-> [self EXCEPT !.state = STATE_END, !.weights = <<>>],
     result |-> [m \in 1..Len(self.weights) |->
                    make_output(self.weights[m][1], self.weights[m][2])]]

\* GraphReader.finish: the reader, and the list returned.
finish(self) ==
    [self |-> [self EXCEPT !.state = STATE_END],
     result |-> [m \in 1..Len(self.weights) |->
                    make_output(self.weights[m][1], self.weights[m][2])]]

(***************************************************************************)
(* A GraphReader driven by any caller                                      *)
(***************************************************************************)

\* Longest line fed to step().
MaxCols == 3

\* Most step() calls made on one reader.
MaxSteps == 4

\* Most finish() calls made on one reader.
MaxFinish == 2

\* The cells of the lines: two station codes, which are not numbers, and
\* a count written with a space and a thousands separator.
Cells == {<<"A">>, <<"B">>, <<" ", "1", ",", "0">>}

Lines == UNION {[1..n -> Cells] : n \in 0..MaxCols}

GraphInit ==
    /\ reader = GraphReader_init
    /\ raised = ""
    /\ steps = 0
    /\ finished = <<>>
    /\ late = <<>>

\* A call of step(line); `late` records, for each call made after a
\* finish(), how many finish() calls came before it and what it raised.
GraphReader_step ==
    /\ steps < MaxSteps
    /\ \E line \in Lines :
          \E after \in {step(reader, line)} :
              /\ reader' = after.self
              /\ raised' = after.raised
                  /\ late' = IF finished # <<>>
                         THEN Append(late, [finishes |-> Len(finished),
                                            raised |-> after.raised])
                         ELSE late
    /\ steps' = steps + 1
    /\ UNCHANGED finished
    /\ UNCHANGED <<enumVars, aggVars, loadVars>>

\* A call of finish(); `finished` records the lists returned.
GraphReader_finish ==
    /\ Len(finished) < MaxFinish
    /\ \E after \in {finish(reader)} :
          /\ reader' = after.self
          /\ finished' = Append(finished, after.result)
    /\ UNCHANGED <<raised, steps, late>>
    /\ UNCHANGED <<enumVars, aggVars, loadVars>>

(***************************************************************************)
(* Properties of GraphReader                                               *)
(***************************************************************************)

\* The two station codes of an edge, as a set.
Endpoints(edge) == {edge.source, edge.destination}

\* C5: every step() call made after finish() has been called raises
\* RuntimeError; none returns normally.
C5_StepAfterFinishRaises ==
    \A i \in 1..Len(late) : late[i].raised = "RuntimeError"

\* C5 witness: two step() calls were made after a finish() that followed
\* the reading of the banner and of the header.
C5_Witness ==
    /\ Len(late) >= 2
    /\ steps - Len(late) >= 2
    /\ reader.state = STATE_END

\* C6: every finish() call after the first returns a list equal to the
\* first call's list.
C6_FinishIdempotent ==
    \A i \in 1..Len(finished) : finished[i] = finished[1]

\* C6 witness: finish() returned a list with an edge, a step() was then
\* rejected, and finish() was called again.
C6_Witness ==
    /\ Len(finished) >= 2
    /\ finished[1] # <<>>
    /\ \E i \in 1..Len(late) :
          late[i].finishes = 1 /\ late[i].raised = "RuntimeError"

\* The state changes a call may make, as (from, to) pairs.
StateChanges ==
    {<<STATE_WAITING, STATE_READ_ORIGIN>>, <<STATE_READ_ORIGIN, STATE_READ_ROW>>,
     <<STATE_WAITING, STATE_END>>, <<STATE_READ_ORIGIN, STATE_END>>,
     <<STATE_READ_ROW, STATE_END>>}

\* C13: the state is END exactly when finish() has been called, and it is
\* WAITING exactly before the first step(); a call changes the state only
\* from WAITING to READ_ORIGIN or from READ_ORIGIN to READ_ROW, by a
\* step(), or to END, by finish(); a step() that returns moves WAITING to
\* READ_ORIGIN, READ_ORIGIN to READ_ROW and leaves READ_ROW; END is never
\* left.
C13_StateTransitions ==
    /\ [](/\ reader.state = STATE_END <=> finished # <<>>
          /\ finished = <<>> => (reader.state = STATE_WAITING <=> steps = 0))
    /\ [][/\ reader'.state # reader.state =>
                <<reader.state, reader'.state>> \in StateChanges
          /\ reader'.state = STATE_END /\ reader.state # STATE_END =>
                Len(finished') = Len(finished) + 1
          /\ Len(finished') = Len(finished) + 1 => reader'.state = STATE_END
          /\ reader.state = STATE_END => reader'.state = STATE_END
          /\ (steps' = steps + 1 /\ raised' = "") =>
                \/ reader.state = STATE_WAITING
                      /\ reader'.state = STATE_READ_ORIGIN
                \/ reader.state = STATE_READ_ORIGIN
                      /\ reader'.state = STATE_READ_ROW
                \/ reader.state = STATE_READ_ROW
                      /\ reader'.state = STATE_READ_ROW
      ]_<<reader.state, steps, Len(finished)>>

\* C13 witness: a reader went through WAITING, READ_ORIGIN and READ_ROW,
\* read a row, and was finished.
C13_Witness ==
    /\ reader.state = STATE_END
    /\ steps >= 3
    /\ late = <<>>
    /\ raised = ""
    /\ finished # <<>> /\ finished[1] # <<>>

\* C15: a step() in READ_ROW on a line with fewer values than the header
\* has columns raises an error and leaves the accumulated counts as they
\* were.
C15_ShortRowFailsFast ==
    [][\A line \in Lines :
          (/\ reader.state = STATE_READ_ROW
           /\ Len(line) < Len(reader.origin_header)
           /\ steps' = steps + 1
           /\ reader' = step(reader, line).self
           /\ raised' = step(reader, line).raised) =>
              /\ raised' # ""
              /\ reader'.weights = reader.weights]_steps

\* C7: in every list finish() returns, each edge has its source strictly
\* before its destination in lexicographic order, and no two edges have
\* the same unordered pair of station codes.
C7_CanonicalEdges ==
    \A i \in 1..Len(finished) :
        /\ \A m \in 1..Len(finished[i]) :
              str_less(finished[i][m].source, finished[i][m].destination)
        /\ \A m, n \in 1..Len(finished[i]) :
              Endpoints(finished[i][m]) = Endpoints(finished[i][n]) => m = n

\* C7 witness: finish() returned an edge whose count was accumulated from
\* both directions (the row of A and the row of B).
C7_Witness ==
    /\ finished # <<>>
    /\ \E m \in 1..Len(finished[1]) :
          finished[1][m] = GraphWeight(<<"A">>, <<"B">>, 20)

(***************************************************************************)
(* load_ridership_data: a GraphReader driven over the rows of a file       *)
(***************************************************************************)

\* The sequences that list every element of a set once.
Orderings(S) ==
    {p \in [1..Cardinality(S) -> S] : \A i, j \in DOMAIN p : p[i] = p[j] => i = j}

\* A matrix file as csv.reader yields it: a banner line, the header line
\* (an empty first cell, then the station of each column), and for each
\* station of `order` its line: the station, then the cell of each column
\* (cell[column, line]).
MatrixFile(columns, order, cell) ==
    <<<<<<"T">>>>, <<<<>>>> \o columns>> \o
    [i \in 1..Len(order) |->
        <<order[i]>> \o [j \in 1..Len(columns) |-> cell[columns[j], order[i]]]]

\* The file with its data lines in the opposite order.
ReverseData(file) ==
    [i \in 1..Len(file) |-> IF i <= 2 THEN file[i] ELSE file[Len(file) + 3 - i]]

\* The stations named by the header line of a file.
StationsOf(file) == Range(Tail(file[2]))

A == <<"A">>
B == <<"B">>
C == <<"C">>

\* What the diagonal of a matrix may hold; the code never reads it.
DiagonalCells == {<<"0">>, <<"-">>}

\* The cell for the trips that enter at `origin` and leave at `exit` in
\* the three-station example: A to B = 5, B to A = 7, A to C = 0,
\* B to C = 2, C to B = 3; the count from C to A is `c_to_a`.
ExampleCell(origin, exit, c_to_a, diagonal) ==
    CASE origin = exit -> diagonal
      [] origin = A /\ exit = B -> <<"5">>
      [] origin = B /\ exit = A -> <<"7">>
      [] origin = A /\ exit = C -> <<"0">>
      [] origin = B /\ exit = C -> <<"2">>
      [] origin = C /\ exit = B -> <<"3">>
      [] origin = C /\ exit = A -> c_to_a

\* The example written in full, for every order of columns and of lines,
\* with the columns naming the origins or the exits.
ExampleFilesWith(c_to_a) ==
    {MatrixFile(columns, order,
                [column \in {A, B, C}, line \in {A, B, C} |->
                    IF by_origin
                    THEN ExampleCell(column, line, c_to_a, diagonal)
                    ELSE ExampleCell(line, column, c_to_a, diagonal)]) :
        columns \in Orderings({A, B, C}), order \in Orderings({A, B, C}),
        by_origin \in BOOLEAN, diagonal \in DiagonalCells}

\* The counts from C to A tried: none, and some.
CToACells == {<<"0">>, <<"4">>}

\* The example files, by the count from C to A.
ExampleFilesBy == [c_to_a \in CToACells |-> ExampleFilesWith(c_to_a)]

ExampleFiles == UNION {ExampleFilesBy[c_to_a] : c_to_a \in CToACells}

\* Station codes of the two-station files: one is a prefix of another.
Codes == {A, <<"A", "B">>, B}

\* Two distinct station codes, in either order.
CodePairs == {p \in Codes \X Codes : p[1] # p[2]}

\* The cells of the two-station files: counts, one with a space and a
\* thousands separator, and a cell that is no number.
PairCells == {<<"0">>, <<"5">>, <<" ", "1", ",", "0">>, <<"x">>}

\* Two stations with one count in each direction, for every order of
\* columns and of lines.
PairFiles ==
    {MatrixFile(columns, order,
                [column \in Codes, line \in Codes |->
                    IF column = line THEN <<"-">>
                    ELSE IF column = columns[1] THEN first ELSE second]) :
        columns \in CodePairs, order \in CodePairs,
        first \in PairCells, second \in PairCells}

\* The two-station files whose lines name the stations of the header.
MatchedPairFiles == {f \in PairFiles : {f[3][1], f[4][1]} = StationsOf(f)}

\* The same files with the first data line given once more at the end.
RepeatedLineFiles == {Append(f, f[3]) : f \in MatchedPairFiles}

\* The codes that name a station.
StationCodes == Codes \cup {A, B, C}

\* The name of a column of totals; it is no station code.
TOTAL == <<"T">>

\* The two-station files with a column of totals at the right: the total
\* of a line is written as the count 5.
TotalsFiles ==
    {[i \in 1..Len(f) |->
         CASE i = 1 -> f[i]
           [] i = 2 -> Append(f[i], TOTAL)
           [] OTHER -> Append(f[i], <<"5">>)] : f \in MatchedPairFiles}

\* The files loaded.
Files ==
    ExampleFiles \cup MatchedPairFiles \cup RepeatedLineFiles \cup TotalsFiles

\* A load that is still in its for loop.
Reading == [pc |-> "reading", raised |-> "", result |-> <<>>]

\* Two calls of load_ridership_data: the second is given the file of the
\* first with its data lines in the opposite order.
LoadInit ==
    /\ files \in {<<f, ReverseData(f)>> : f \in Files}
    /\ csv_reader = files
    /\ graph_reader = [k \in 1..2 |-> GraphReader_init]
    /\ loaded = [k \in 1..2 |-> Reading]

\* One turn of `for row in csv_reader: graph_reader.step(row)`; an
\* exception of step() ends the call.
load_ridership_data_step ==
    /\ \E k \in 1..2 :
          /\ loaded[k].pc = "reading"
          /\ csv_reader[k] # <<>>
          /\ \E after \in {step(graph_reader[k], Head(csv_reader[k]))} :
                /\ graph_reader' = [graph_reader EXCEPT ![k] = after.self]
                /\ loaded' = IF after.raised = "" THEN loaded
                             ELSE [loaded EXCEPT ![k].pc = "raised",
                                                 ![k].raised = after.raised]
          /\ csv_reader' = [csv_reader EXCEPT ![k] = Tail(csv_reader[k])]
    /\ UNCHANGED files
    /\ UNCHANGED <<enumVars, aggVars, graphVars>>

\* `return graph_reader.finish()` once the file is read.
load_ridership_data_return ==
    /\ \E k \in 1..2 :
          /\ loaded[k].pc = "reading"
          /\ csv_reader[k] = <<>>
          /\ \E after \in {finish(graph_reader[k])} :
                /\ graph_reader' = [graph_reader EXCEPT ![k] = after.self]
                /\ loaded' = [loaded EXCEPT ![k].pc = "returned",
                                            ![k].result = after.result]
    /\ UNCHANGED <<files, csv_reader>>
    /\ UNCHANGED <<enumVars, aggVars, graphVars>>

(***************************************************************************)
(* Properties of the loaded graph                                          *)
(***************************************************************************)

HasReturned(k) == loaded[k].pc = "returned"

\* C8 as stated: for the three-station example, the list finish() returns
\* holds exactly the two edges (A,B,12) and (B,C,5): no (A,C) edge.
C8_ExactlyTwoEdges ==
    \A k \in 1..2 :
        (HasReturned(k) /\ files[k] \in ExampleFiles) =>
            /\ Len(loaded[k].result) = 2
            /\ Range(loaded[k].result) =
                  {GraphWeight(A, B, 12), GraphWeight(B, C, 5)}

\* C8 amended: for the three-station example written in full, the list
\* finish() returns holds exactly three edges: (A,B,12), (B,C,5) and
\* (A,C,n) where n is the count from C to A, so (A,C,0) when that count is
\* 0 as well; no edge joins a station to itself.
C8_ThreeEdgesWithZero ==
    \A k \in 1..2 : \A c_to_a \in CToACells :
        (HasReturned(k) /\ files[k] \in ExampleFilesBy[c_to_a]) =>
            /\ Len(loaded[k].result) = 3
            /\ Range(loaded[k].result) =
                  {GraphWeight(A, B, 12), GraphWeight(B, C, 5),
                   GraphWeight(A, C, parse_count(c_to_a).value)}
            /\ \A m \in 1..Len(loaded[k].result) :
                  loaded[k].result[m].source # loaded[k].result[m].destination

\* C8 witness: the example with no trips between A and C in either
\* direction was loaded, and the graph has an (A,C) edge of weight 0.
C8_Witness ==
    /\ HasReturned(1)
    /\ files[1] \in ExampleFilesBy[<<"0">>]
    /\ GraphWeight(A, C, 0) \in Range(loaded[1].result)

\* The number of lines of its file a load has given to step().
Consumed(k) == Len(files[k]) - Len(csv_reader[k])

\* A cell that is not a number once whitespace around it and thousands
\* separators are taken away: nothing is left, or something that is not a
\* digit (after a minus sign, if any).
NotNumeric(cell) ==
    LET kept == remove_commas(strip(cell))
        body == IF kept # <<>> /\ kept[1] = "-" THEN Tail(kept) ELSE kept
    IN  body = <<>> \/ \E i \in 1..Len(body) : body[i] \notin Digits

\* The positions of a data line that hold a count: those under a header
\* column, the first (the line's own station code) left out.
CountColumns(header, line) ==
    {j \in 2..Len(line) : j <= Len(header)}

\* Those of them the reader parses: the column is not the one of the
\* line's own station and is the last one of its name.
ParsedColumns(header, line) ==
    {j \in CountColumns(header, line) :
        /\ header[j] # EXIT
        /\ header[j] # line[1]
        /\ \A later \in CountColumns(header, line) :
              later > j => header[later] # header[j]}

\* C14 as stated: a load that has given step() a data line with a cell
\* that is not numeric ended there with a ValueError.
C14_AnyMalformedCellFails ==
    \A k \in 1..2 : \A i \in 3..Consumed(k) :
        (\E j \in CountColumns(files[k][2], files[k][i]) :
              NotNumeric(files[k][i][j])) =>
            /\ i = Consumed(k)
            /\ loaded[k].pc = "raised"
            /\ loaded[k].raised = "ValueError"

\* C14 amended: a load that has given step() a data line with a cell that
\* is not numeric, in a column other than that of the line's own station,
\* ended there with a ValueError; a cell in the line's own column is
\* not read, whatever it holds.
C14_ParsedMalformedCellFails ==
    \A k \in 1..2 : \A i \in 3..Consumed(k) :
        (\E j \in ParsedColumns(files[k][2], files[k][i]) :
              NotNumeric(files[k][i][j])) =>
            /\ i = Consumed(k)
            /\ loaded[k].pc = "raised"
            /\ loaded[k].raised = "ValueError"

\* C14 witness: a load raised ValueError on its second data line, whose
\* count is no number, after it had read the first.
C14_Witness ==
    /\ loaded[1].pc = "raised"
    /\ loaded[1].raised = "ValueError"
    /\ Consumed(1) = 4
    /\ \E j \in ParsedColumns(files[1][2], files[1][4]) :
          files[1][4][j] = <<"x">>
    /\ graph_reader[1].weights # <<>>

\* The cells of a file that count trips between stations x and y: the
\* (line, column) positions parsed whose line and column name the two.
CellsBetween(file, x, y) ==
    {c \in (3..Len(file)) \X (2..Len(file[2])) :
        /\ c[2] \in ParsedColumns(file[2], file[c[1]])
        /\ {file[c[1]][1], file[2][c[2]]} = {x, y}}

\* The sum of the parsed values of a set of cells of a file.
RECURSIVE SumOfCells(_, _)
SumOfCells(file, cells) ==
    IF cells = {} THEN 0
    ELSE LET c == CHOOSE d \in cells : TRUE
         IN  parse_count(file[c[1]][c[2]]).value
                 + SumOfCells(file, cells \ {c})

\* C16: in the list finish() returns, the count of the edge between two
\* distinct stations is the sum of the parsed values of all the cells of
\* the data lines read that lie in the line of one and the column of
\* the other; every edge is the edge of two such stations.
C16_CountIsSumOfCells ==
    \A k \in 1..2 :
        loaded[k].pc = "returned" =>
            /\ \A x, y \in StationsOf(files[k]) :
                  x # y =>
                      \E m \in 1..Len(loaded[k].result) :
                          /\ Endpoints(loaded[k].result[m]) = {x, y}
                          /\ loaded[k].result[m].count =
                                SumOfCells(files[k], CellsBetween(files[k], x, y))
            /\ \A m \in 1..Len(loaded[k].result) :
                  \A n \in 1..Len(loaded[k].result) :
                      Endpoints(loaded[k].result[m]) =
                          Endpoints(loaded[k].result[n]) => m = n

\* C16 witness: a file whose first data line is given twice was loaded,
\* and the count of its edge adds the cell of that line twice to the cell
\* of the other line.
C16_Witness ==
    /\ loaded[1].pc = "returned"
    /\ Len(files[1]) = 5
    /\ files[1][3] = <<A, <<"-">>, <<"5">>>>
    /\ files[1][4] = <<B, <<" ", "1", ",", "0">>, <<"-">>>>
    /\ loaded[1].result = <<GraphWeight(A, B, 20)>>

\* C17: a header column whose name is no station code is an endpoint of
\* no edge of the list finish() returns.
C17_OnlyStationColumns ==
    \A k \in 1..2 :
        loaded[k].pc = "returned" =>
            \A j \in 2..Len(files[k][2]) :
                files[k][2][j] \notin StationCodes =>
                    \A m \in 1..Len(loaded[k].result) :
                        files[k][2][j] \notin Endpoints(loaded[k].result[m])

\* The edges of a list that join the two given stations.
EdgesBetween(result, x, y) ==
    {m \in 1..Len(result) : Endpoints(result[m]) = {x, y}}

\* C9: when the same matrix is read with its data lines in either order,
\* each graph holds one GraphWeight for every pair of distinct stations,
\* and the two have the same source, destination and count.
C9_OrderIndependent ==
    (HasReturned(1) /\ HasReturned(2)) =>
        \A x, y \in StationsOf(files[1]) :
            x # y =>
                /\ Cardinality(EdgesBetween(loaded[1].result, x, y)) = 1
                /\ Cardinality(EdgesBetween(loaded[2].result, x, y)) = 1
                /\ \A m \in EdgesBetween(loaded[1].result, x, y) :
                      \A n \in EdgesBetween(loaded[2].result, x, y) :
                          loaded[1].result[m] = loaded[2].result[n]

\* C9 witness: two stations, the line of B read before the line of AB in
\* one load and after it in the other, and both loads returned the edge
\* (AB, B) with the sum of the two directed counts.
C9_Witness ==
    /\ HasReturned(1) /\ HasReturned(2)
    /\ files[1][3][1] = B
    /\ files[2][3][1] = <<"A", "B">>
    /\ loaded[1].result = <<GraphWeight(<<"A", "B">>, B, 15)>>
    /\ loaded[2].result = loaded[1].result

(***************************************************************************)
(* A data line that fails part of the way                                  *)
(***************************************************************************)

\* Where the name of the j-th column first stands in the header: the loop
\* over row.keys() visits the names in this order.
FirstAt(header, j) ==
    CHOOSE i \in 1..j :
        header[i] = header[j] /\ \A e \in 1..(i - 1) : header[e] # header[j]

\* The parsed columns whose name stands before that of the j-th column.
ReadBefore(header, line, j) ==
    {e \in ParsedColumns(header, line) :
        FirstAt(header, e) < FirstAt(header, j)}

\* The parsed column of the first cell that is no number, if there is one.
FailsAt(header, line) ==
    {j \in ParsedColumns(header, line) :
        /\ NotNumeric(line[j])
        /\ \A e \in ReadBefore(header, line, j) : ~NotNumeric(line[e])}

\* The columns that precede the first cell that is no number.
PartialColumns(header, line) ==
    UNION {ReadBefore(header, line, j) : j \in FailsAt(header, line)}

\* The count an accumulator holds for the trips between two stations.
CountBetween(weights, x, y) ==
    dict_get(weights, join_tab(sorted_pair(x, y)), 0)

\* C22: a reader whose last step() raised ValueError and that has not
\* been finished is in READ_ROW, and every list finish() has returned
\* holds an edge for every entry of the accumulator; and whenever a reader
\* in READ_ROW is given a line on which step() raises ValueError, the call
\* leaves the reader in READ_ROW, a cell that is no number is what failed,
\* the count of every column before that cell has been added to the
\* accumulator, every other entry of the accumulator is as it was and
\* none is lost, and a finish() after it returns an edge with the count
\* so accumulated for each such column.
C22_FailedRowKeepsPartialCounts ==
    /\ (raised = "ValueError" /\ finished = <<>>) =>
          reader.state = STATE_READ_ROW
    /\ \A i \in 1..Len(finished) : \A m \in 1..Len(reader.weights) :
          make_output(reader.weights[m][1], reader.weights[m][2])
              \in Range(finished[i])
    /\ reader.state = STATE_READ_ROW =>
            \A line \in Lines :
                \A after \in {step(reader, line)} :
                \A header \in {reader.origin_header} :
                \A partial \in {PartialColumns(reader.origin_header, line)} :
                    after.raised = "ValueError" =>
                        /\ after.self.state = STATE_READ_ROW
                        /\ FailsAt(header, line) # {}
                        /\ \A e \in partial :
                              CountBetween(after.self.weights, header[e], line[1])
                                  = CountBetween(reader.weights, header[e], line[1])
                                        + parse_count(line[e]).value
                        /\ \A m \in 1..Len(after.self.weights) :
                              \/ after.self.weights[m] \in Range(reader.weights)
                              \/ \E e \in partial :
                                    after.self.weights[m][1] =
                                        join_tab(sorted_pair(header[e], line[1]))
                        /\ \A m \in 1..Len(reader.weights) :
                              \E n \in 1..Len(after.self.weights) :
                                  after.self.weights[n][1] = reader.weights[m][1]
                        /\ \A e \in partial :
                              \E edge \in Range(finish(after.self).result) :
                                  /\ Endpoints(edge) = {header[e], line[1]}
                                  /\ edge.count =
                                        CountBetween(reader.weights, header[e],
                                                     line[1])
                                            + parse_count(line[e]).value

\* C22 witness: the only data line given to step() raised ValueError
\* after a count of that line had been added to the accumulator, and the
\* finish() called after it returned an edge.
C22_Witness ==
    /\ steps = 3
    /\ reader.state = STATE_END
    /\ raised = "ValueError"
    /\ reader.weights # <<>>
    /\ finished # <<>> /\ finished[1] # <<>>
    /\ late = <<>>

(***************************************************************************)
(* Specifications                                                          *)
(***************************************************************************)

EnumIdle ==
    /\ ALLOWED_THREE_LETTERS = {}
    /\ start_geohash = <<>>
    /\ geohashes_seen = {}
    /\ geohashes_waiting = <<>>
    /\ puts = <<>>
    /\ produced = <<>>
    /\ stops = 0

AggIdle == target = NoTarget /\ call = NoCall /\ sums = <<>>

GraphIdle ==
    /\ reader = None
    /\ raised = ""
    /\ steps = 0
    /\ finished = <<>>
    /\ late = <<>>

LoadIdle ==
    /\ files = <<>>
    /\ csv_reader = <<>>
    /\ graph_reader = <<>>
    /\ loaded = <<>>

InitGraph == GraphInit /\ EnumIdle /\ AggIdle /\ LoadIdle

NextGraph == GraphReader_step \/ GraphReader_finish

SpecGraph == InitGraph /\ [][NextGraph]_vars

InitLoad == LoadInit /\ EnumIdle /\ AggIdle /\ GraphIdle

NextLoad == load_ridership_data_step \/ load_ridership_data_return

SpecLoad == InitLoad /\ [][NextLoad]_vars

InitAgg == AggInit /\ EnumIdle /\ GraphIdle /\ LoadIdle

NextAgg == GeohashPopulation_get_sum

SpecAgg == InitAgg /\ [][NextAgg]_vars

InitSums == SumsInit /\ GraphIdle /\ LoadIdle

NextSums == get_sums_next

SpecSums == InitSums /\ [][NextSums]_vars

InitEnum == EnumeratorInit /\ AggIdle /\ GraphIdle /\ LoadIdle

NextEnum == GeohashEnumerator_next

SpecEnum == InitEnum /\ [][NextEnum]_vars

\* The same enumerator with its construction as a step: the caller builds
\* one and then keeps pulling, as map() and filter() do in get_sums.
InitUnbuilt == EnumIdle /\ AggIdle /\ GraphIdle /\ LoadIdle

GeohashEnumerator_new ==
    /\ start_geohash = <<>>
    /\ \E allowed \in SUBSET Prefixes, seed \in Geohashes :
          /\ ALLOWED_THREE_LETTERS' = allowed
          /\ start_geohash' = seed
          /\ geohashes_seen' = enumerator_init(seed).seen
          /\ geohashes_waiting' = enumerator_init(seed).waiting
          /\ puts' = <<seed>>
    /\ UNCHANGED <<produced, stops>>
    /\ UNCHANGED <<aggVars, graphVars, loadVars>>

GeohashEnumerator_pull == start_geohash # <<>> /\ GeohashEnumerator_next

NextEnumFair == GeohashEnumerator_new \/ GeohashEnumerator_pull

SpecEnumFair == InitUnbuilt /\ [][NextEnumFair]_vars /\ WF_vars(NextEnumFair)

=============================================================================
